---- MODULE Spec2Model ----
(***************************************************************************)
(* git-remote-evm: the remote-helper line protocol (CLI), the              *)
(* synchronization engine (Evm::fetch / Evm::push) and the two stores it   *)
(* talks to (Git = Local Store, Executor = Remote Store).                  *)
(*                                                                         *)
(* Hashes are small integers: 0 is the all-zero "empty" hash, 1..4 are the *)
(* hashes of four objects whose related-object lists form a DAG.           *)
(***************************************************************************)
EXTENDS Integers, Sequences, FiniteSets, TLC

\* ------------------------------------------------------------------ bounds
\* longest fetch/push batch the input side accumulates before flushing
MaxBatch == 2

\* ---------------------------------------------------------------- fixtures
\* Hash::empty
EmptyHash == 0
\* marks "no hash argument" in call records and faults
NoHash == 0 - 1
\* Object::get_related_objects: 1 blob, 2 tree{1}, 3 commit{tree 2},
\* 4 commit{tree 2, parent 3}
Related == << <<>>, <<1>>, <<2>>, <<2, 3>> >>
ObjectHashes == DOMAIN Related
\* ref names, in the order the Remote Store lists them
RefNames == <<"a", "b">>
Names == {RefNames[i] : i \in DOMAIN RefNames}
\* a local ref name that does not resolve
NoRef == NoHash

Range(s) == {s[i] : i \in DOMAIN s}

RECURSIVE SetToSeq(_)
SetToSeq(S) ==
    IF S = {} THEN <<>>
    ELSE LET m == CHOOSE x \in S : \A y \in S : x <= y
         IN <<m>> \o SetToSeq(S \ {m})

\* objects reachable from h by following related hashes
RECURSIVE Reach(_)
Reach(h) == {h} \cup UNION {Reach(k) : k \in Range(Related[h])}

\* ------------------------------------------------------------------ faults
\* one collaborator call that fails while a line is handled
NoFault == [op |-> "none", hash |-> NoHash]
Call(op, hash, name) == [op |-> op, hash |-> hash, name |-> name]
Ok(v) == [ok |-> TRUE, value |-> v, err |-> "none"]
Err(kind) == [ok |-> FALSE, value |-> NoHash, err |-> kind]

\* ------------------------------------------------------- Local Store (Git)
GitResolveReference(g, name, fault) ==
    IF fault.op = "git.resolve_reference" \/ g.references[name] = NoRef
    THEN Err("Failure")
    ELSE Ok(g.references[name])

GitListObjects(g, hash, fault) ==
    IF fault.op = "git.list_objects" \/ ~(Reach(hash) \subseteq g.objects)
    THEN [ok |-> FALSE, value |-> <<>>, err |-> "Failure"]
    ELSE [ok |-> TRUE, value |-> SetToSeq(Reach(hash)), err |-> "none"]

GitListMissingObjects(g, local, remote, fault) ==
    IF \/ fault.op = "git.list_missing_objects"
       \/ ~(Reach(local) \subseteq g.objects)
       \/ ~(Reach(remote) \subseteq g.objects)
    THEN [ok |-> FALSE, value |-> <<>>, err |-> "Failure"]
    ELSE [ok |-> TRUE, value |-> SetToSeq(Reach(local) \ Reach(remote)),
          err |-> "none"]

GitGetObject(g, hash, fault) ==
    IF fault = [op |-> "git.get_object", hash |-> hash] \/ hash \notin g.objects
    THEN Err("Failure")
    ELSE Ok(hash)

\* save_object: `git hash-object -w` writes the object; its output is parsed,
\* is_sha256 is asked and the hash is compared only afterwards, so the call
\* can fail before the write ("git.save_object") or after it
\* ("git.save_object.verify")
GitSaveObject(g, hash, fault) ==
    IF fault = [op |-> "git.save_object", hash |-> hash]
    THEN [ok |-> FALSE, git |-> g, err |-> "Failure"]
    ELSE IF fault = [op |-> "git.save_object.verify", hash |-> hash]
    THEN [ok |-> FALSE, git |-> [g EXCEPT !.objects = @ \cup {hash}], err |-> "Failure"]
    ELSE [ok |-> TRUE, git |-> [g EXCEPT !.objects = @ \cup {hash}],
          err |-> "none"]

GitIsSha256(fault) ==
    IF fault.op = "git.is_sha256" THEN Err("Failure") ELSE Ok(0)

\* ------------------------------------------------ Remote Store (Executor)
ExecutorList(e, fault) ==
    IF fault.op = "executor.list"
    THEN [ok |-> FALSE, value |-> <<>>, err |-> "Failure"]
    ELSE [ok |-> TRUE,
          value |-> SelectSeq([i \in DOMAIN RefNames |->
                                 [name |-> RefNames[i], hash |-> e.refs[RefNames[i]]]],
                              LAMBDA r : r.hash # EmptyHash),
          err |-> "none"]

\* Mock::resolve_references: the hashes of all refs the store holds, whatever
\* the names asked for
MockResolveReferences(e, names) ==
    SelectSeq([i \in DOMAIN RefNames |-> e.refs[RefNames[i]]],
              LAMBDA hash : hash # EmptyHash)

ExecutorResolveReferences(e, names, fault) ==
    IF fault.op = "executor.resolve_references"
    THEN [ok |-> FALSE, value |-> <<>>, err |-> "Failure"]
    ELSE [ok |-> TRUE, value |-> [i \in DOMAIN names |-> e.refs[names[i]]],
          err |-> "none"]

ExecutorListObjects(e, fault) ==
    IF fault.op = "executor.list_objects"
    THEN [ok |-> FALSE, value |-> {}, err |-> "Failure"]
    ELSE [ok |-> TRUE, value |-> e.objects, err |-> "none"]

ExecutorFetch(e, hash, fault) ==
    IF fault = [op |-> "executor.fetch", hash |-> hash] THEN Err("Failure")
    ELSE IF hash \notin e.objects THEN Err("Missing")
    ELSE Ok(hash)

RECURSIVE SetRefs(_, _)
SetRefs(refs, references) ==
    IF references = <<>> THEN refs
    ELSE SetRefs([refs EXCEPT ![Head(references).name] = Head(references).hash],
                 Tail(references))

ExecutorPush(e, objects, references, fault) ==
    IF fault.op = "executor.push"
    THEN [ok |-> FALSE, executor |-> e, err |-> "Failure"]
    ELSE [ok |-> TRUE,
          executor |-> [objects |-> e.objects \cup objects,
                        refs |-> SetRefs(e.refs, references)],
          err |-> "none"]

\* ------------------------------------------------------------ engine (Evm)
\* Evm::capabilities
EvmCapabilities == <<"*fetch", "*push">>

\* Evm::list
EvmList(e, fault) ==
    LET r == ExecutorList(e, fault)
    IN [result |-> IF r.ok THEN "Ok" ELSE r.err,
        refs |-> r.value,
        calls |-> <<Call("executor.list", NoHash, "")>>]

\* slip: the related hashes of a fetched object are not queued
ExtendToFetch_Nothing(to_fetch, hash) == to_fetch

\* to_fetch.extend(object.get_related_objects())
ExtendToFetch(to_fetch, hash) == to_fetch \o Related[hash]

\* slip: a hash is fetched again every time it is popped
AlreadyProcessed_Never(processed, hash) == FALSE

\* !processed.insert(hash): the hash was popped before in this fetch
AlreadyProcessed(processed, hash) == hash \in processed

\* the while-let loop of Evm::fetch: to_fetch is a stack, popped at the end
RECURSIVE FetchLoop(_, _, _, _, _, _)
\* the rest of the loop body once executor.fetch(hash) returned object: its
\* related hashes are queued and it is saved, then the loop goes on
FetchBody(rest, processed, g, e, fault, calls, hash, object) ==
    LET s == GitSaveObject(g, object, fault)
        calls2 == Append(calls, Call("git.save_object", object, ""))
    IN IF ~s.ok
       THEN [result |-> s.err, git |-> s.git, calls |-> calls2]
       ELSE FetchLoop(ExtendToFetch(rest, object),
                      processed \cup {hash}, s.git, e, fault, calls2)

FetchLoop(to_fetch, processed, g, e, fault, calls) ==
    IF to_fetch = <<>> THEN [result |-> "Ok", git |-> g, calls |-> calls]
    ELSE
      LET hash == to_fetch[Len(to_fetch)]
          rest == SubSeq(to_fetch, 1, Len(to_fetch) - 1)
      IN IF AlreadyProcessed(processed, hash)
         THEN FetchLoop(rest, processed, g, e, fault, calls)
         ELSE
           LET f == ExecutorFetch(e, hash, fault)
               calls1 == Append(calls, Call("executor.fetch", hash, ""))
           IN IF ~f.ok THEN [result |-> f.err, git |-> g, calls |-> calls1]
              ELSE FetchBody(rest, processed, g, e, fault, calls1, hash, f.value)

\* Evm::fetch, given the requested hashes
EvmFetch(fetches, g, e, fault) == FetchLoop(fetches, {}, g, e, fault, <<>>)

\* slip: directives whose local ref does not resolve are dropped
ResolveLocal_SkipFailed(pushes, g, fault, hashes, calls) ==
    LET resolved == SelectSeq(pushes, LAMBDA p : GitResolveReference(g, p.local, fault).ok)
    IN [ok |-> TRUE,
        value |-> hashes \o [i \in DOMAIN resolved |-> g.references[resolved[i].local]],
        calls |-> calls \o [i \in DOMAIN pushes |->
                              Call("git.resolve_reference", NoHash, pushes[i].local)],
        err |-> "none"]

\* pushes.iter().map(resolve_reference).collect::<Result<Vec<_>, _>>()
RECURSIVE ResolveLocal(_, _, _, _, _)
ResolveLocal(pushes, g, fault, hashes, calls) ==
    IF pushes = <<>> THEN [ok |-> TRUE, value |-> hashes, calls |-> calls, err |-> "none"]
    ELSE
      LET r == GitResolveReference(g, Head(pushes).local, fault)
          calls1 == Append(calls, Call("git.resolve_reference", NoHash, Head(pushes).local))
      IN IF ~r.ok
         THEN [ok |-> FALSE, value |-> hashes, calls |-> calls1, err |-> r.err]
         ELSE ResolveLocal(Tail(pushes), g, fault, Append(hashes, r.value), calls1)

\* hashes.map(get_object).collect::<Result<Vec<_>, _>>()
RECURSIVE GetObjects(_, _, _, _, _)
GetObjects(hashes, g, fault, objects, calls) ==
    IF hashes = <<>> THEN [ok |-> TRUE, value |-> objects, calls |-> calls, err |-> "none"]
    ELSE
      LET r == GitGetObject(g, Head(hashes), fault)
          calls1 == Append(calls, Call("git.get_object", Head(hashes), ""))
      IN IF ~r.ok
         THEN [ok |-> FALSE, value |-> objects, calls |-> calls1, err |-> r.err]
         ELSE GetObjects(Tail(hashes), g, fault, objects \cup {r.value}, calls1)

\* slip: every changed ref is diffed against the remote inventory
IsNewRef_Always(remote_hash) == TRUE

\* remote_hash.is_empty(): the ref is new, diff against the remote inventory
IsNewRef(remote_hash) == remote_hash = EmptyHash

\* slip: the remote inventory is not subtracted
MissingFromRemote_NoDifference(local_ref_hashes, all_remote_object_hashes) ==
    local_ref_hashes

\* local_ref_hashes.difference(&all_remote_object_hashes)
MissingFromRemote(local_ref_hashes, all_remote_object_hashes) ==
    local_ref_hashes \ all_remote_object_hashes

\* slip: the short-circuit looks at the object set only
NothingToPush_ObjectsOnly(objects, references) == objects = {}

\* objects.is_empty() && references.is_empty()
NothingToPush(objects, references) == objects = {} /\ references = <<>>

\* slip: the objects of the last changed ref replace the collected ones
CollectObjects_Replace(objects, got) == got

\* objects.extend(...): the objects of every changed ref are collected
CollectObjects(objects, got) == objects \cup got

\* slip: the objects are kept in a list that takes every object it is given
ExtendObjects_KeepDuplicates(list, got) == list \o SetToSeq(got)

\* objects.extend(...) as seen by objects.into_iter().collect(): an object
\* already in the HashSet is not added again
ExtendObjects(list, got) == list \o SetToSeq(got \ Range(list))

\* Reference::Normal recorded for a changed ref
PushReference(push, local_hash) == [name |-> push.local, hash |-> local_hash]

\* slip: a failed step is skipped and the push goes on with what it has
PushFailed_KeepGoing(acc, calls, err) == [acc EXCEPT !.calls = calls]

\* a `?` inside the loop: Evm::push returns the error
PushFailed(acc, calls, err) ==
    [acc EXCEPT !.result = err, !.calls = calls]

\* slip: the inventory is requested again for every absent remote ref
InventoryCached_Never(inventory) == FALSE

\* all_remote_object_hashes.get() is Some: the OnceCell was set by an earlier
\* directive of this push
InventoryCached(inventory) == inventory.set

\* slip: a forced directive is pushed although its hashes are equal
UpToDate_UnlessForced(push, local_hash, remote_hash) ==
    local_hash = remote_hash /\ ~push.is_force

\* local_hash == remote_hash: the directive is skipped; of the directive only
\* its local name reaches the loop
UpToDate(push, local_hash, remote_hash) == local_hash = remote_hash

\* the for loop of Evm::push over (local_hash, remote_hash, name), from index i
RECURSIVE PushLoop(_, _, _, _, _, _, _, _)
PushLoop(i, pushes, local_hashes, remote_hashes, g, e, fault, acc) ==
    IF i > Len(local_hashes) \/ i > Len(remote_hashes) THEN acc
    ELSE
      LET local_hash == local_hashes[i]
          remote_hash == remote_hashes[i]
      IN
      IF UpToDate(pushes[i], local_hash, remote_hash)
      THEN PushLoop(i + 1, pushes, local_hashes, remote_hashes, g, e, fault, acc)
      ELSE IF IsNewRef(remote_hash)
      THEN
        LET inv == IF InventoryCached(acc.inventory)
                   THEN [ok |-> TRUE, value |-> acc.inventory.hashes, err |-> "none"]
                   ELSE ExecutorListObjects(e, fault)
            calls1 == IF InventoryCached(acc.inventory) THEN acc.calls
                      ELSE Append(acc.calls, Call("executor.list_objects", NoHash, ""))
        IN IF ~inv.ok THEN PushFailed(acc, calls1, inv.err)
           ELSE
             LET lo == GitListObjects(g, local_hash, fault)
                 calls2 == Append(calls1, Call("git.list_objects", local_hash, ""))
             IN IF ~lo.ok THEN PushFailed(acc, calls2, lo.err)
                ELSE
                  LET missing == SetToSeq(MissingFromRemote(Range(lo.value), inv.value))
                      go == GetObjects(missing, g, fault, {}, calls2)
                  IN IF ~go.ok THEN PushFailed(acc, go.calls, go.err)
                     ELSE PushLoop(i + 1, pushes, local_hashes, remote_hashes, g, e, fault,
                            [acc EXCEPT
                               !.inventory = [set |-> TRUE, hashes |-> inv.value],
                               !.objects = CollectObjects(@, go.value),
                          !.list = ExtendObjects(@, go.value),
                               !.references = Append(@, PushReference(pushes[i], local_hash)),
                               !.calls = go.calls])
      ELSE
        LET lm == GitListMissingObjects(g, local_hash, remote_hash, fault)
            calls1 == Append(acc.calls, Call("git.list_missing_objects", local_hash, ""))
        IN IF ~lm.ok THEN PushFailed(acc, calls1, lm.err)
           ELSE
             LET go == GetObjects(lm.value, g, fault, {}, calls1)
             IN IF ~go.ok THEN PushFailed(acc, go.calls, go.err)
                ELSE PushLoop(i + 1, pushes, local_hashes, remote_hashes, g, e, fault,
                       [acc EXCEPT
                          !.objects = CollectObjects(@, go.value),
                          !.list = ExtendObjects(@, go.value),
                          !.references = Append(@, PushReference(pushes[i], local_hash)),
                          !.calls = go.calls])

\* result of Evm::push that leaves the Remote Store untouched
PushReturn(result, e, calls) ==
    [result |-> result, executor |-> e, calls |-> calls, pushed |-> <<>>]

\* the end of Evm::push, after the loop: the short-circuit, is_sha256 and
\* the one executor.push
ExecutePush(acc, e, fault) ==
    IF acc.result # "Ok" THEN PushReturn(acc.result, e, acc.calls)
    ELSE IF NothingToPush(acc.objects, acc.references)
    THEN PushReturn("Ok", e, acc.calls)
    ELSE IF ~GitIsSha256(fault).ok
    THEN PushReturn(GitIsSha256(fault).err, e,
                    Append(acc.calls, Call("git.is_sha256", NoHash, "")))
    ELSE
      LET p == ExecutorPush(e, acc.objects, acc.references, fault)
      IN [result |-> IF p.ok THEN "Ok" ELSE p.err,
          executor |-> p.executor,
          calls |-> acc.calls \o <<Call("git.is_sha256", NoHash, ""),
                                   Call("executor.push", NoHash, "")>>,
          pushed |-> <<[objects |-> acc.objects, list |-> acc.list,
                       references |-> acc.references]>>]

\* Evm::push once the local and the remote hashes are resolved
EvmPushResolved(pushes, local_hashes, remote_hashes, g, e, fault, calls) ==
    ExecutePush(
      PushLoop(1, pushes, local_hashes, remote_hashes, g, e, fault,
               [result |-> "Ok",
                inventory |-> [set |-> FALSE, hashes |-> {}],
                objects |-> {}, list |-> <<>>, references |-> <<>>,
                calls |-> calls]),
      e, fault)

\* Evm::push
EvmPush(pushes, g, e, fault) ==
    IF pushes = <<>> THEN PushReturn("Ok", e, <<>>)
    ELSE
      LET lh == ResolveLocal(pushes, g, fault, <<>>, <<>>)
      IN IF ~lh.ok THEN PushReturn(lh.err, e, lh.calls)
         ELSE
           LET remote_names == [i \in DOMAIN pushes |-> pushes[i].remote]
               rh == ExecutorResolveReferences(e, remote_names, fault)
               calls1 == Append(lh.calls, Call("executor.resolve_references", NoHash, ""))
           IN IF ~rh.ok THEN PushReturn(rh.err, e, calls1)
              ELSE EvmPushResolved(pushes, lh.value, rh.value, g, e, fault, calls1)

\* --------------------------------------------------------- protocol lines
\* a whitespace-separated token: an optional leading "+" and the pieces
\* between its colons
Tok(force, parts) == [force |-> force, parts |-> parts]
W(s) == Tok(FALSE, <<s>>)
\* line == "\n"
BlankLine == [blank |-> TRUE, parts |-> <<>>]
L(parts) == [blank |-> FALSE, parts |-> parts]

FetchableHashes == {EmptyHash} \cup ObjectHashes

Lines ==
    {BlankLine, L(<<>>)}
    \cup {L(<<W("capabilities")>>), L(<<W("capabilities"), W("x")>>)}
    \cup {L(<<W("list")>>), L(<<W("list"), W("for-push")>>),
          L(<<W("list"), W("x")>>), L(<<W("list"), W("for-push"), W("x")>>)}
    \cup {L(<<W("fetch"), W(ToString(h)), W("a")>>) : h \in ObjectHashes}
    \cup {L(<<W("fetch"), W("x"), W("a")>>), L(<<W("fetch"), W("1")>>)}
    \cup {L(<<W("push"), Tok(FALSE, <<l, r>>)>>) : l \in Names, r \in Names}
    \cup {L(<<W("push"), Tok(TRUE, <<"a", "b">>)>>)}
    \cup {L(<<W("push")>>), L(<<W("push"), W("a")>>),
          L(<<W("push"), Tok(FALSE, <<"a", "b", "a">>)>>),
          L(<<W("push"), W("a"), W("b")>>)}
    \cup {L(<<W("x")>>)}

\* Hash::from_str on a fetch argument
ParseHash(tok) ==
    IF \E h \in FetchableHashes : tok = W(ToString(h))
    THEN Ok(CHOOSE h \in FetchableHashes : tok = W(ToString(h)))
    ELSE Err("Failure")

\* -------------------------------------------------------------------- CLI
VARIABLES
    state,      \* CLI.state: None | ListingFetches(hashes) | ListingPushes(refs)
    status,     \* "running", or what CLI::run returned
    input,      \* what the last read_line returned
    written,    \* lines written to stdout while handling the last line
    engine,     \* RemoteHelper calls made while handling the last line
    calls,      \* store calls made while handling the last line
    pushed,     \* arguments of the Executor::push calls among them
    fault,      \* the store call that was set to fail for the last line
    git,        \* Local Store: objects present, reference -> hash
    executor,   \* Remote Store: objects present, reference -> hash
    subject,    \* what is handed to Hash / Object / Evm::fetch, outside a run
    outcome     \* what Hash / Object made of the subject, or the locals of
                \* Evm::fetch while it works on it

vars == <<state, status, input, written, engine, calls, pushed, fault, git, executor,
          subject, outcome>>

NoOutcome == [fn |-> "none"]

StateNone == [kind |-> "None", hashes |-> <<>>, refs |-> <<>>]
ListingFetches(hashes) == [kind |-> "ListingFetches", hashes |-> hashes, refs |-> <<>>]
ListingPushes(refs) == [kind |-> "ListingPushes", hashes |-> <<>>, refs |-> refs]

Invocation(op, hashes, pushes) == [op |-> op, hashes |-> hashes, pushes |-> pushes]
Blank == <<>>
ReadLine(line) == [read |-> "line", line |-> line]

ClosedSets == {S \in SUBSET ObjectHashes : \A h \in S : Range(Related[h]) \subseteq S}

\* local repositories the helper is started in: empty, one commit, two commits
LocalStores ==
    {[objects |-> {}, references |-> [n \in Names |-> NoRef]],
     [objects |-> {1, 2, 3}, references |-> [n \in Names |-> IF n = "a" THEN 3 ELSE NoRef]],
     [objects |-> {1, 2, 3, 4}, references |-> [n \in Names |-> IF n = "a" THEN 4 ELSE 3]]}

\* remote repositories: any closed object set, each ref absent or at a commit
RemoteStores ==
    UNION {[objects : {ro}, refs : [Names -> ({3, 4} \cap ro) \cup {EmptyHash}]] :
             ro \in ClosedSets}

Init ==
    /\ state = StateNone
    /\ status = "running"
    /\ input = [read |-> "none", line |-> BlankLine]
    /\ written = <<>>
    /\ engine = <<>>
    /\ calls = <<>>
    /\ pushed = <<>>
    /\ fault = NoFault
    /\ git \in LocalStores
    /\ executor \in RemoteStores
    /\ subject = [type |-> "none"]
    /\ outcome = NoOutcome

\* slip: a rejected line empties the accumulated batch
Abort_DropsBatch(line, kind) ==
    /\ status' = kind
    /\ input' = ReadLine(line)
    /\ written' = <<>>
    /\ engine' = <<>>
    /\ calls' = <<>>
    /\ pushed' = <<>>
    /\ fault' = NoFault
    /\ state' = StateNone
    /\ UNCHANGED <<git, executor, subject, outcome>>

\* a handler that returns an error before touching the engine or stdout
Abort(line, kind) ==
    /\ status' = kind
    /\ input' = ReadLine(line)
    /\ written' = <<>>
    /\ engine' = <<>>
    /\ calls' = <<>>
    /\ pushed' = <<>>
    /\ fault' = NoFault
    /\ UNCHANGED <<state, git, executor, subject, outcome>>

\* slip: the response is written whatever the state
Respond_AlwaysWrites(line, response, invocations, storeCalls, f) ==
    /\ status' = status
    /\ input' = ReadLine(line)
    /\ written' = Append(response, Blank)
    /\ engine' = invocations
    /\ calls' = storeCalls
    /\ pushed' = <<>>
    /\ fault' = f
    /\ UNCHANGED <<git, executor, subject, outcome>>

\* the tail of handle_line (cli/mod.rs:186-193) for a line that changed no store
Respond(line, response, invocations, storeCalls, f) ==
    /\ status' = status
    /\ input' = ReadLine(line)
    /\ written' = IF state'.kind = "None" THEN Append(response, Blank) ELSE <<>>
    /\ engine' = invocations
    /\ calls' = storeCalls
    /\ pushed' = <<>>
    /\ fault' = f
    /\ UNCHANGED <<git, executor, subject, outcome>>

\* slip: end of file inside an open batch is an error
ReadEof_OpenBatchIsError ==
    /\ status = "running"
    /\ status' = IF state.kind = "None" THEN "Ok" ELSE "IllegalState"
    /\ input' = [read |-> "eof", line |-> BlankLine]
    /\ written' = <<>> /\ engine' = <<>> /\ calls' = <<>> /\ pushed' = <<>>
    /\ fault' = NoFault
    /\ UNCHANGED <<state, git, executor, subject, outcome>>

\* read_line returned Ok(0)
ReadEof ==
    /\ status = "running"
    /\ status' = "Ok"
    /\ input' = [read |-> "eof", line |-> BlankLine]
    /\ written' = <<>> /\ engine' = <<>> /\ calls' = <<>> /\ pushed' = <<>>
    /\ fault' = NoFault
    /\ UNCHANGED <<state, git, executor, subject, outcome>>

\* slip: every read error ends the run cleanly
ReadError_AllClean ==
    /\ status = "running"
    /\ \E kind \in {"broken_pipe", "error"} :
         /\ status' = "Ok"
         /\ input' = [read |-> kind, line |-> BlankLine]
    /\ written' = <<>> /\ engine' = <<>> /\ calls' = <<>> /\ pushed' = <<>>
    /\ fault' = NoFault
    /\ UNCHANGED <<state, git, executor, subject, outcome>>

\* read_line returned Err: BrokenPipe ends the run cleanly, others are errors
ReadError ==
    /\ status = "running"
    /\ \E kind \in {"broken_pipe", "error"} :
         /\ status' = IF kind = "broken_pipe" THEN "Ok" ELSE "InputOutput"
         /\ input' = [read |-> kind, line |-> BlankLine]
    /\ written' = <<>> /\ engine' = <<>> /\ calls' = <<>> /\ pushed' = <<>>
    /\ fault' = NoFault
    /\ UNCHANGED <<state, git, executor, subject, outcome>>

\* "\n" while State::None: Err(EndOfInput), which run turns into Ok
EndOfInput ==
    /\ status = "running"
    /\ state.kind = "None"
    /\ status' = "Ok"
    /\ input' = ReadLine(BlankLine)
    /\ written' = <<>> /\ engine' = <<>> /\ calls' = <<>> /\ pushed' = <<>>
    /\ fault' = NoFault
    /\ UNCHANGED <<state, git, executor, subject, outcome>>

\* the for loop of CLI::do_fetch: one RemoteHelper::fetch per hash
RECURSIVE DoFetchLoop(_, _, _, _, _)
DoFetchLoop(hashes, g, e, f, acc) ==
    IF hashes = <<>> THEN acc
    ELSE
      LET r == EvmFetch(<<Head(hashes)>>, g, e, f)
          acc1 == [result |-> r.result, git |-> r.git,
                   engine |-> Append(acc.engine, Invocation("fetch", <<Head(hashes)>>, <<>>)),
                   calls |-> acc.calls \o r.calls]
      IN IF r.result # "Ok" THEN acc1
         ELSE DoFetchLoop(Tail(hashes), r.git, e, f, acc1)

\* CLI::do_fetch
DoFetch(hashes, g, e, f) ==
    LET r == DoFetchLoop(hashes, g, e, f,
                         [result |-> "Ok", git |-> g, engine |-> <<>>, calls |-> <<>>])
    IN [result |-> r.result, git |-> r.git, engine |-> r.engine, calls |-> r.calls,
        written |-> IF r.result = "Ok" THEN <<Blank>> ELSE <<>>]

FetchFaults ==
    {NoFault} \cup {[op |-> o, hash |-> h] :
                      o \in {"executor.fetch", "git.save_object",
                             "git.save_object.verify"},
                      h \in ObjectHashes}

\* "\n" while State::ListingFetches
FlushFetch ==
    /\ status = "running"
    /\ state.kind = "ListingFetches"
    /\ \E f \in FetchFaults :
         LET r == DoFetch(state.hashes, git, executor, f)
         IN /\ state' = StateNone
            /\ status' = IF r.result = "Ok" THEN "running" ELSE "Command"
            /\ input' = ReadLine(BlankLine)
            /\ written' = r.written
            /\ engine' = r.engine
            /\ calls' = r.calls
            /\ pushed' = <<>>
            /\ fault' = f
            /\ git' = r.git
            /\ UNCHANGED <<executor, subject, outcome>>

\* slip: the result line names the local ref
PushLine_LocalName(reference, result) ==
    IF result = "Ok" THEN <<"ok", reference.local>>
    ELSE <<"error", reference.local, result>>

\* the result lines of CLI::do_push
PushLine(reference, result) ==
    IF result = "Ok" THEN <<"ok", reference.remote>>
    ELSE <<"error", reference.remote, result>>

\* CLI::do_push
DoPush(refs, g, e, f) ==
    [push |-> EvmPush(refs, g, e, f),
     engine |-> <<Invocation("push", <<>>, refs)>>]

PushFaults ==
    {NoFault}
    \cup {[op |-> o, hash |-> NoHash] :
            o \in {"git.resolve_reference", "executor.resolve_references",
                   "executor.list_objects", "git.list_objects",
                   "git.list_missing_objects", "git.is_sha256", "executor.push"}}
    \cup {[op |-> "git.get_object", hash |-> h] : h \in ObjectHashes}

\* slip: a failed push is reported in the result lines only
PushOutcome_ReportedOnly(result) == "running"

\* the match that ends CLI::do_push: Ok(()) or Err(e.into())
PushOutcome(result) == IF result = "Ok" THEN "running" ELSE "Command"

\* "\n" while State::ListingPushes
FlushPush ==
    /\ status = "running"
    /\ state.kind = "ListingPushes"
    /\ \E f \in PushFaults :
         \E r \in {DoPush(state.refs, git, executor, f)} :
            /\ state' = StateNone
            /\ status' = PushOutcome(r.push.result)
            /\ input' = ReadLine(BlankLine)
            /\ written' = Append([i \in DOMAIN state.refs |->
                                   PushLine(state.refs[i], r.push.result)], Blank)
            /\ engine' = r.engine
            /\ calls' = r.push.calls
            /\ pushed' = r.push.pushed
            /\ fault' = f
            /\ executor' = r.push.executor
            /\ UNCHANGED <<git, subject, outcome>>

\* a line other than "\n" with no token
HandleNoCommand ==
    /\ status = "running"
    /\ \E line \in Lines :
         /\ ~line.blank /\ line.parts = <<>>
         /\ Abort(line, "MalformedLine")

\* "capabilities"
HandleCapabilities ==
    /\ status = "running"
    /\ \E line \in Lines :
         /\ ~line.blank /\ line.parts # <<>> /\ Head(line.parts) = W("capabilities")
         /\ IF Len(Tail(line.parts)) # 0 THEN Abort(line, "MalformedLine")
            ELSE /\ state' = state
                 /\ Respond(line, [i \in DOMAIN EvmCapabilities |-> <<EvmCapabilities[i]>>],
                            <<Invocation("capabilities", <<>>, <<>>)>>, <<>>, NoFault)

\* slip: the name is written before the hash
FormatReference_NameFirst(reference) == <<reference.name, ToString(reference.hash)>>

\* "{}\n" of each listed reference
FormatReference(reference) == <<ToString(reference.hash), reference.name>>

\* "list" / "list for-push"
HandleList ==
    /\ status = "running"
    /\ \E line \in Lines :
         /\ ~line.blank /\ line.parts # <<>> /\ Head(line.parts) = W("list")
         /\ LET args == Tail(line.parts)
            IN IF Len(args) > 1 THEN Abort(line, "MalformedLine")
               ELSE IF Len(args) = 1 /\ args[1] # W("for-push")
               THEN Abort(line, "InvalidArgument")
               ELSE \E f \in {NoFault, [op |-> "executor.list", hash |-> NoHash]} :
                      LET r == EvmList(executor, f)
                      IN IF r.result # "Ok"
                         THEN /\ status' = "Command"
                              /\ input' = ReadLine(line)
                              /\ written' = <<>>
                              /\ engine' = <<Invocation("list", <<>>, <<>>)>>
                              /\ calls' = r.calls
                              /\ pushed' = <<>>
                              /\ fault' = f
                              /\ UNCHANGED <<state, git, executor, subject, outcome>>
                         ELSE /\ state' = state
                              /\ Respond(line,
                                         [i \in DOMAIN r.refs |-> FormatReference(r.refs[i])],
                                         <<Invocation("list", <<>>, <<>>)>>, r.calls, f)

\* slip: the "push" arm accepts every state
PushIsIllegal_Never(kind) == FALSE

\* State::ListingFetches(_) => Err(IllegalState) in the "push" arm
PushIsIllegal(kind) == kind = "ListingFetches"

\* "fetch <hash> <name>"
HandleFetch ==
    /\ status = "running"
    /\ \E line \in Lines :
         /\ ~line.blank /\ line.parts # <<>> /\ Head(line.parts) = W("fetch")
         /\ LET args == Tail(line.parts)
            IN IF Len(args) # 2 THEN Abort(line, "MalformedLine")
               ELSE IF ~ParseHash(args[1]).ok THEN Abort(line, "InvalidArgument")
               ELSE IF state.kind = "ListingPushes" THEN Abort(line, "IllegalState")
               ELSE /\ Len(state.hashes) < MaxBatch
                    /\ state' = ListingFetches(Append(state.hashes, ParseHash(args[1]).value))
                    /\ Respond(line, <<>>, <<>>, <<>>, NoFault)

\* "push [+]<local>:<remote>"
HandlePush ==
    /\ status = "running"
    /\ \E line \in Lines :
         /\ ~line.blank /\ line.parts # <<>> /\ Head(line.parts) = W("push")
         /\ LET args == Tail(line.parts)
            IN IF Len(args) # 1 THEN Abort(line, "MalformedLine")
               ELSE IF Len(args[1].parts) # 2 THEN Abort(line, "MalformedLine")
               ELSE IF PushIsIllegal(state.kind) THEN Abort(line, "IllegalState")
               ELSE /\ Len(state.refs) < MaxBatch
                    /\ state' = ListingPushes(Append(state.refs,
                                   [local |-> args[1].parts[1], remote |-> args[1].parts[2],
                                    is_force |-> args[1].force]))
                    /\ Respond(line, <<>>, <<>>, <<>>, NoFault)

\* any other command word
HandleUnknown ==
    /\ status = "running"
    /\ \E line \in Lines :
         /\ ~line.blank /\ line.parts # <<>>
         /\ Head(line.parts) \notin {W("capabilities"), W("list"), W("fetch"), W("push")}
         /\ Abort(line, "UnknownCommand")

Next ==
    \/ ReadEof
    \/ ReadError
    \/ EndOfInput
    \/ FlushFetch
    \/ FlushPush
    \/ HandleNoCommand
    \/ HandleCapabilities
    \/ HandleList
    \/ HandleFetch
    \/ HandlePush
    \/ HandleUnknown

Spec == Init /\ [][Next]_vars

\* main, given what CLI::run returned: exit_with_error prints the error to
\* standard error after "remote: " and exits 1; otherwise main returns
Main(result) ==
    IF result = "Ok" THEN [code |-> 0, stderr |-> <<>>]
    ELSE [code |-> 1, stderr |-> <<"remote:", result>>]

\* ------------------------------------------------------------------- Hash
\* the digits hex::encode writes
HexDigits == <<"0", "1", "2", "3", "4", "5", "6", "7", "8", "9",
               "a", "b", "c", "d", "e", "f">>
\* {40} of HASH_REGEX_SHA1
Sha1Chars == 40
\* {64} of HASH_REGEX_SHA256
Sha256Chars == 64
\* "0".repeat(24): the zeros that pad a short hash to 64 characters
PaddingChars == 24

\* c.repeat(n)
Repeat(c, n) == [i \in 1..n |-> c]

\* s.strip_suffix(suffix).unwrap_or(s)
StripSuffix(s, suffix) ==
    IF Len(s) >= Len(suffix) /\ SubSeq(s, Len(s) - Len(suffix) + 1, Len(s)) = suffix
    THEN SubSeq(s, 1, Len(s) - Len(suffix))
    ELSE s

\* Regex ^[0-9a-f]{n}$ .is_match(s)
IsMatch(s, n) ==
    /\ Len(s) = n
    /\ \A i \in DOMAIN s :
         s[i] \in {"0", "1", "2", "3", "4", "5", "6", "7", "8", "9",
                   "a", "b", "c", "d", "e", "f"}

Sha1(text) == [kind |-> "Sha1", text |-> text]
Sha256(text) == [kind |-> "Sha256", text |-> text]
\* a Result: Ok(value), Err(err), or a panic
Done(value) == [ok |-> TRUE, value |-> value, err |-> "none"]
Fail(err) == [ok |-> FALSE, value |-> <<>>, err |-> err]

\* the text Hash::from_str matches against the two patterns
NoPadding(s) == StripSuffix(s, Repeat("0", PaddingChars))

\* Hash::from_str
HashFromStr(s) ==
    IF IsMatch(NoPadding(s), Sha1Chars) THEN Done(Sha1(NoPadding(s)))
    ELSE IF IsMatch(NoPadding(s), Sha256Chars) THEN Done(Sha256(NoPadding(s)))
    ELSE Fail("Failure")

\* Hash::empty
HashEmpty(is_sha256) ==
    IF is_sha256 THEN Sha256(Repeat("0", Sha256Chars)) ELSE Sha1(Repeat("0", Sha1Chars))

\* hex::encode
HexEncode(bytes) ==
    [i \in 1..(2 * Len(bytes)) |->
       IF i % 2 = 1 THEN HexDigits[(bytes[(i + 1) \div 2] \div 16) + 1]
       ELSE HexDigits[(bytes[i \div 2] % 16) + 1]]

\* TryFrom<&[u8]> for Hash
HashTryFrom(bytes) == HashFromStr(HexEncode(bytes))

\* ----------------------------------------------------------------- Object
\* data is a sequence of bytes, 0..255
Alphabet == <<"a", "b", "c", "d", "e", "f", "g", "h", "i", "j", "k", "l", "m",
              "n", "o", "p", "q", "r", "s", "t", "u", "v", "w", "x", "y", "z">>
Digits == <<"0", "1", "2", "3", "4", "5", "6", "7", "8", "9">>
\* b'\0', b'\n', b' ', b'+', b'0', b'a'
Nul == 0
Newline == 10
Space == 32
Plus == 43
Zero == 48
LowerA == 97

\* the ASCII code of a character of the texts used here
Code(c) ==
    IF \E i \in DOMAIN Digits : Digits[i] = c
    THEN Zero + (CHOOSE i \in DOMAIN Digits : Digits[i] = c) - 1
    ELSE IF \E i \in DOMAIN Alphabet : Alphabet[i] = c
    THEN LowerA + (CHOOSE i \in DOMAIN Alphabet : Alphabet[i] = c) - 1
    ELSE Space

\* s.as_bytes()
AsBytes(text) == [i \in DOMAIN text |-> Code(text[i])]

\* the character of a byte; "?" stands for every character that is neither a
\* digit nor a lowercase letter
CharOf(b) ==
    IF b \in Zero..(Zero + 9) THEN Digits[b - Zero + 1]
    ELSE IF b \in LowerA..(LowerA + 25) THEN Alphabet[b - LowerA + 1]
    ELSE "?"

\* String::from_utf8 of ASCII bytes
FromUtf8(bytes) == [i \in DOMAIN bytes |-> CharOf(bytes[i])]
\* a byte that cannot start a UTF-8 sequence makes String::from_utf8 fail
IsUtf8(bytes) == \A i \in DOMAIN bytes : bytes[i] < 128

\* iter().position(|b| *b == byte), 0 when there is none
Position(bytes, byte) ==
    IF \E i \in DOMAIN bytes : bytes[i] = byte
    THEN CHOOSE i \in DOMAIN bytes : bytes[i] = byte /\ \A j \in 1..(i - 1) : bytes[j] # byte
    ELSE 0

\* splitn(2, |b| *b == byte)
SplitN2(bytes, byte) ==
    IF Position(bytes, byte) = 0 THEN <<bytes>>
    ELSE <<SubSeq(bytes, 1, Position(bytes, byte) - 1),
           SubSeq(bytes, Position(bytes, byte) + 1, Len(bytes))>>

\* split(|b| *b == byte)
RECURSIVE Split(_, _)
Split(bytes, byte) ==
    IF Position(bytes, byte) = 0 THEN <<bytes>>
    ELSE <<SubSeq(bytes, 1, Position(bytes, byte) - 1)>>
         \o Split(SubSeq(bytes, Position(bytes, byte) + 1, Len(bytes)), byte)

\* Display for ObjectKind
KindName(kind) ==
    CASE kind = "Blob" -> <<"b", "l", "o", "b">>
      [] kind = "Tree" -> <<"t", "r", "e", "e">>
      [] kind = "Commit" -> <<"c", "o", "m", "m", "i", "t">>
      [] kind = "Tag" -> <<"t", "a", "g">>
ObjectKinds == {"Blob", "Tree", "Commit", "Tag"}

\* ObjectKind::from_str
ObjectKindFromStr(bytes) ==
    IF \E kind \in ObjectKinds : bytes = AsBytes(KindName(kind))
    THEN Done(CHOOSE kind \in ObjectKinds : bytes = AsBytes(KindName(kind)))
    ELSE Fail("Invalid")

\* usize::to_string
RECURSIVE ToDecimal(_)
ToDecimal(n) ==
    IF n < 10 THEN <<Zero + n>>
    ELSE Append(ToDecimal(n \div 10), Zero + (n % 10))

\* the value of a run of decimal digits
RECURSIVE DecimalValue(_)
DecimalValue(digits) ==
    IF digits = <<>> THEN 0
    ELSE 10 * DecimalValue(SubSeq(digits, 1, Len(digits) - 1))
         + (digits[Len(digits)] - Zero)

\* the digits str::parse::<usize> reads, after an optional "+"
Unsigned(bytes) ==
    IF bytes # <<>> /\ Head(bytes) = Plus THEN Tail(bytes) ELSE bytes

\* str::parse::<usize>
ParseUsize(bytes) ==
    IF Unsigned(bytes) # <<>>
       /\ \A i \in DOMAIN Unsigned(bytes) : Unsigned(bytes)[i] \in Zero..(Zero + 9)
    THEN Done(DecimalValue(Unsigned(bytes)))
    ELSE Fail("Invalid")

\* hash_length of a tree entry when is_sha256 is false
Sha1Bytes == 20
\* hash_length of a tree entry when is_sha256 is true
Sha256Bytes == 32
HashLength(is_sha256) == IF is_sha256 THEN Sha256Bytes ELSE Sha1Bytes

\* a slice index past the end of the data: the thread panics
Panic == [ok |-> FALSE, value |-> <<>>, err |-> "panic"]

\* the while loop of the Tree arm, on the data left after a NUL was found
RECURSIVE TreeEntry(_, _, _)
\* the while loop of the Tree arm of find_related_objects
TreeLoop(data, hash_length, related_objects) ==
    IF data = <<>> THEN Done(related_objects)
    ELSE IF Position(data, Nul) = 0 THEN Fail("Invalid")
    ELSE TreeEntry(SubSeq(data, Position(data, Nul) + 1, Len(data)),
                   hash_length, related_objects)

TreeEntry(data, hash_length, related_objects) ==
    IF Len(data) < hash_length THEN Panic
    ELSE IF ~HashTryFrom(SubSeq(data, 1, hash_length)).ok
    THEN Fail(HashTryFrom(SubSeq(data, 1, hash_length)).err)
    ELSE TreeLoop(SubSeq(data, hash_length + 1, Len(data)), hash_length,
                  Append(related_objects, HashTryFrom(SubSeq(data, 1, hash_length)).value))

\* the match on the first word of a commit line whose parts are given
RECURSIVE CommitLoop(_, _)
CommitLine(parts, lines, related_objects) ==
    IF Len(parts) < 2 THEN Fail("Invalid")
    ELSE IF parts[1] \notin {AsBytes(<<"t", "r", "e", "e">>),
                             AsBytes(<<"p", "a", "r", "e", "n", "t">>)}
    THEN Done(related_objects)
    ELSE IF ~IsUtf8(parts[2]) THEN Fail("Invalid")
    ELSE IF ~HashFromStr(FromUtf8(parts[2])).ok
    THEN Fail(HashFromStr(FromUtf8(parts[2])).err)
    ELSE CommitLoop(Tail(lines),
                    Append(related_objects, HashFromStr(FromUtf8(parts[2])).value))

\* the for loop of the Commit arm of find_related_objects
CommitLoop(lines, related_objects) ==
    IF lines = <<>> THEN Done(related_objects)
    ELSE CommitLine(Split(Head(lines), Space), lines, related_objects)

\* the Tag arm, given the parts of the first line
TagLine(parts) ==
    IF Len(parts) # 2 THEN Fail("Invalid")
    ELSE IF parts[1] # AsBytes(<<"o", "b", "j", "e", "c", "t">>) THEN Fail("Invalid")
    ELSE IF ~HashTryFrom(parts[2]).ok THEN Fail(HashTryFrom(parts[2]).err)
    ELSE Done(<<HashTryFrom(parts[2]).value>>)

\* Object::find_related_objects
FindRelatedObjects(kind, data, is_sha256) ==
    CASE kind = "Blob" -> Done(<<>>)
      [] kind = "Tree" -> TreeLoop(data, HashLength(is_sha256), <<>>)
      [] kind = "Commit" -> CommitLoop(Split(data, Newline), <<>>)
      [] kind = "Tag" -> TagLine(Split(Head(Split(data, Newline)), Space))

\* the Object built once its related objects were found
BuildObject(kind, data, related) ==
    IF related.ok
    THEN Done([kind |-> kind, data |-> data, related_objects |-> related.value])
    ELSE related

\* Object::new
ObjectNew(kind, data, is_sha256) ==
    BuildObject(kind, data, FindRelatedObjects(kind, data, is_sha256))

\* Object::serialize
ObjectSerialize(object) ==
    AsBytes(KindName(object.kind)) \o <<Space>> \o ToDecimal(Len(object.data))
    \o <<Nul>> \o object.data

\* slip: the declared size is parsed but not compared with the payload
DeserializeBody_NoSizeCheck(header, data, is_sha256) ==
    IF Len(header) # 2 THEN Fail("Invalid")
    ELSE IF ~ObjectKindFromStr(header[1]).ok THEN Fail("Invalid")
    ELSE IF ~ParseUsize(header[2]).ok THEN Fail("Invalid")
    ELSE ObjectNew(ObjectKindFromStr(header[1]).value, data, is_sha256)

\* the end of Object::deserialize, given the two parts of the header
DeserializeBody(header, data, is_sha256) ==
    IF Len(header) # 2 THEN Fail("Invalid")
    ELSE IF ~ObjectKindFromStr(header[1]).ok THEN Fail("Invalid")
    ELSE IF ~ParseUsize(header[2]).ok THEN Fail("Invalid")
    ELSE IF ParseUsize(header[2]).value # Len(data) THEN Fail("Invalid")
    ELSE ObjectNew(ObjectKindFromStr(header[1]).value, data, is_sha256)

\* the start of Object::deserialize, given the parts around the first NUL
DeserializeParts(parts, is_sha256) ==
    IF Len(parts) # 2 THEN Fail("Invalid")
    ELSE IF ~IsUtf8(parts[1]) THEN Fail("Invalid")
    ELSE DeserializeBody(SplitN2(parts[1], Space), parts[2], is_sha256)

\* Object::deserialize
ObjectDeserialize(wire, is_sha256) == DeserializeParts(SplitN2(wire, Nul), is_sha256)

\* ------------------------------------------------- Hash / Object subjects
\* most entries of a tree and most parent lines of a commit
MaxEntries == 2

RECURSIVE Concat(_)
Concat(seqs) == IF seqs = <<>> THEN <<>> ELSE Head(seqs) \o Concat(Tail(seqs))

\* lines.join("\n")
RECURSIVE Join(_, _)
Join(lines, byte) ==
    IF lines = <<>> THEN <<>>
    ELSE IF Len(lines) = 1 THEN Head(lines)
    ELSE Head(lines) \o <<byte>> \o Join(Tail(lines), byte)

SeqsUpTo(S, n) == UNION {[1..k -> S] : k \in 0..n}

\* texts of one length: all "a", all "0", hex digits before 24 zeros, a mix
\* of digits, and the same with one character that is not lowercase hex
TextsOfLength(n) ==
    {Repeat("a", n), Repeat("0", n), [i \in 1..n |-> HexDigits[(i % 16) + 1]]}
    \cup (IF n >= PaddingChars
          THEN {Repeat("a", n - PaddingChars) \o Repeat("0", PaddingChars)}
          ELSE {})
    \cup {[Repeat("a", n) EXCEPT ![p] = c] : p \in {1, n} \cap (1..n), c \in {"g", "A", "."}}

HashTexts == UNION {TextsOfLength(n) : n \in {0, 16, 39, 40, 41, 63, 64, 65, 88}}

\* hash texts written in commits and tags
ReferenceTexts ==
    {Repeat("a", Sha1Chars), Repeat("a", Sha256Chars),
     Repeat("a", Sha1Chars - PaddingChars) \o Repeat("0", PaddingChars),
     Repeat("a", Sha256Chars - PaddingChars) \o Repeat("0", PaddingChars),
     Repeat("a", Sha1Chars - 1), Repeat("g", Sha1Chars)}
\* raw hashes of n bytes written in trees
HashBytes(n) ==
    {Repeat(171, n), Repeat(255, n), Repeat(0, n),
     Repeat(171, n - (PaddingChars \div 2)) \o Repeat(0, PaddingChars \div 2)}

\* "<mode> <name>" of a tree entry
EntryHeader == AsBytes(<<"1", "0", "0", "6", "4", "4">>) \o <<Space>> \o AsBytes(<<"a">>)

Payload(kind, data, is_sha256, form) ==
    [type |-> "payload", kind |-> kind, data |-> data, is_sha256 |-> is_sha256,
     form |-> form]

\* the payload of a tree with these raw hashes, one entry each
TreeData(hashes) ==
    Concat([i \in DOMAIN hashes |-> EntryHeader \o <<Nul>> \o hashes[i]])

\* trees of whole entries with hashes of n bytes; the same trees cut short:
\* no NUL after the last header, or a last hash of fewer than n bytes
TreePayloads(n, is_sha256) ==
    {Payload("Tree", TreeData(hashes), is_sha256,
             [entries |-> hashes, width |-> n, cut |-> "whole"]) :
       hashes \in SeqsUpTo(HashBytes(n), MaxEntries)}
    \cup {Payload("Tree", TreeData(hashes) \o EntryHeader, is_sha256,
                  [entries |-> hashes, width |-> n, cut |-> "no_nul"]) :
            hashes \in SeqsUpTo(HashBytes(n), MaxEntries)}
    \cup {Payload("Tree", TreeData(hashes) \o EntryHeader \o <<Nul>> \o Repeat(171, k),
                  is_sha256, [entries |-> hashes, width |-> n, cut |-> "short"]) :
            hashes \in SeqsUpTo(HashBytes(n), MaxEntries), k \in {0, n - 1}}

Line(word, text) == AsBytes(word) \o <<Space>> \o AsBytes(text)
TreeWord == <<"t", "r", "e", "e">>
ParentWord == <<"p", "a", "r", "e", "n", "t">>
AuthorLine == Line(<<"a", "u", "t", "h", "o", "r">>, <<"a">>)

\* what follows the tree and parent lines of a commit
CommitTails ==
    {<<>>, <<AuthorLine>>, << <<>> >>, <<AsBytes(<<"x">>)>>,
     <<AuthorLine, <<>>, Line(TreeWord, Repeat("c", Sha1Chars))>>,
     << <<>>, Line(ParentWord, Repeat("c", Sha1Chars))>>}

\* the payload of a commit: its tree line, its parent lines, and the rest
CommitData(tree, parents, tail) ==
    Join(<<Line(TreeWord, tree)>>
         \o [i \in DOMAIN parents |-> Line(ParentWord, parents[i])] \o tail,
         Newline)

CommitPayloads ==
    {Payload("Commit", CommitData(t, ps, tail), a,
             [tree |-> t, parents |-> ps, tail |-> tail]) :
       t \in ReferenceTexts, ps \in SeqsUpTo({Repeat("b", Sha1Chars), Repeat("b", Sha256Chars), Repeat("b", Sha1Chars + 1)}, MaxEntries),
       tail \in CommitTails, a \in BOOLEAN}

ObjectWord == <<"o", "b", "j", "e", "c", "t">>
TypeLine == Line(<<"t", "y", "p", "e">>, <<"c", "o", "m", "m", "i", "t">>)

\* first lines of a tag: "object <text>", "object <raw bytes>", others
TagFirstLines ==
    {[line |-> Line(ObjectWord, t), object |-> "text", text |-> t] : t \in ReferenceTexts}
    \cup {[line |-> AsBytes(ObjectWord) \o <<Space>> \o h, object |-> "raw", text |-> <<>>] :
            h \in HashBytes(Sha1Bytes) \cup HashBytes(Sha256Bytes)}
    \cup {[line |-> l, object |-> "none", text |-> <<>>] :
            l \in {TypeLine, AsBytes(ObjectWord), <<>>,
                   Line(ObjectWord, Repeat("a", Sha1Chars)) \o <<Space>> \o AsBytes(<<"a">>)}}

TagPayloads ==
    {Payload("Tag", IF more THEN Join(<<first.line, TypeLine>>, Newline) ELSE first.line,
             a, [object |-> first.object, text |-> first.text]) :
       first \in TagFirstLines, more \in BOOLEAN, a \in BOOLEAN}

Payloads ==
    ({Payload("Blob", d, a, [whole |-> TRUE]) : d \in {<<>>, AsBytes(<<"t", "e", "s", "t">>), <<Nul, Space, Newline, 255>>, Repeat(LowerA, 12)}, a \in BOOLEAN})
    \cup TreePayloads(Sha1Bytes, FALSE) \cup TreePayloads(Sha256Bytes, TRUE)
    \cup TreePayloads(Sha1Bytes, TRUE) \cup TreePayloads(Sha256Bytes, FALSE)
    \cup CommitPayloads
    \cup TagPayloads

TestData == AsBytes(<<"t", "e", "s", "t">>)

\* header texts put before NUL and the four bytes "test"
WireHeaders ==
    {AsBytes(k) \o sep \o AsBytes(n) :
       k \in {<<"b", "l", "o", "b">>, <<"t", "a", "g">>, <<"b", "l", "u", "b">>, <<>>},
       sep \in {<<Space>>, <<>>, <<Space, Space>>},
       n \in {<<"4">>, <<"5">>, <<"3">>, <<"0", "4">>, <<"x">>, <<>>, <<"4", "0">>}}
    \cup {AsBytes(<<"b", "l", "o", "b">>) \o <<Space>> \o n :
            n \in {<<Plus, Zero + 4>>, <<Zero + 4, Space, Zero + 5>>, <<Zero + 4, Space>>,
                   <<45, Zero + 4>>, <<Zero + 4, 255>>}}

Wires ==
    {h \o <<Nul>> \o TestData : h \in WireHeaders}
    \cup {h \o TestData : h \in WireHeaders}
    \cup {<<>>, <<Nul>>, AsBytes(<<"b", "l", "o", "b">>) \o <<Space, Zero, Nul>>,
          AsBytes(<<"b", "l", "o", "b">>) \o <<Space, Zero + 5, Nul>> \o <<116, Nul, 101, 115, 116>>}

\* Hash::padded: a Sha1 text is filled with zeros up to 64 characters
HashPadded(hash) ==
    IF hash.kind = "Sha1"
    THEN hash.text \o Repeat("0", Sha256Chars - Len(hash.text))
    ELSE hash.text

\* the value of a hex digit
HexValue(c) == (CHOOSE i \in DOMAIN HexDigits : HexDigits[i] = c) - 1

\* FixedBytes::<32>::from_str on 64 hex characters: the 32 bytes
FixedBytesFromStr(text) ==
    [i \in 1..(Len(text) \div 2) |->
       16 * HexValue(text[2 * i - 1]) + HexValue(text[2 * i])]

\* FixedBytes::to_string: "0x" and the bytes in lowercase hex
FixedBytesToString(bytes) == <<"0", "x">> \o HexEncode(bytes)

\* From<FixedBytes<32>> for Hash: from_str on the text after "0x", with expect
HashFromFixedBytes(bytes) ==
    IF HashFromStr(SubSeq(FixedBytesToString(bytes), 3,
                          Len(FixedBytesToString(bytes)))).ok
    THEN HashFromStr(SubSeq(FixedBytesToString(bytes), 3,
                            Len(FixedBytesToString(bytes))))
    ELSE Panic

\* hashes of both algorithms, the empty ones and ones ending in zeros included
Hashes ==
    {Sha1(t) : t \in {x \in HashTexts : IsMatch(x, Sha1Chars)}}
    \cup {Sha256(t) : t \in {x \in HashTexts : IsMatch(x, Sha256Chars)}}

Subjects ==
    {[type |-> "text", text |-> t] : t \in HashTexts}
    \cup {[type |-> "hash", hash |-> h] : h \in Hashes}
    \cup Payloads
    \cup {[type |-> "wire", wire |-> w, is_sha256 |-> a] : w \in Wires, a \in BOOLEAN}

\* nothing runs: a text or some bytes are about to be handed to Hash / Object
CodecInit ==
    /\ state = StateNone
    /\ status = "Ok"
    /\ input = [read |-> "none", line |-> BlankLine]
    /\ written = <<>>
    /\ engine = <<>>
    /\ calls = <<>>
    /\ pushed = <<>>
    /\ fault = NoFault
    /\ git = [objects |-> {}, references |-> [n \in Names |-> NoRef]]
    /\ executor = [objects |-> {}, refs |-> [n \in Names |-> EmptyHash]]
    /\ subject \in Subjects
    /\ outcome = NoOutcome

Run == <<state, status, input, written, engine, calls, pushed, fault, git, executor>>

\* Hash::from_str on the text
FromStr ==
    /\ subject.type = "text"
    /\ outcome = NoOutcome
    /\ outcome' = [fn |-> "from_str", result |-> HashFromStr(subject.text)]
    /\ UNCHANGED <<Run, subject>>

\* Object::new on the payload
New ==
    /\ subject.type = "payload"
    /\ outcome = NoOutcome
    /\ outcome' = [fn |-> "new",
                   result |-> ObjectNew(subject.kind, subject.data, subject.is_sha256)]
    /\ UNCHANGED <<Run, subject>>

\* Object::serialize on the object just built
Serialize ==
    /\ outcome.fn = "new"
    /\ outcome.result.ok
    /\ outcome' = [fn |-> "serialize", object |-> outcome.result.value,
                   result |-> Done(ObjectSerialize(outcome.result.value))]
    /\ UNCHANGED <<Run, subject>>

\* Object::deserialize on the bytes just serialized, or on the wire bytes
Deserialize ==
    /\ \/ /\ outcome.fn = "serialize"
          /\ outcome' = [fn |-> "deserialize", wire |-> outcome.result.value,
                         result |-> ObjectDeserialize(outcome.result.value,
                                                      subject.is_sha256),
                         object |-> outcome.object]
       \/ /\ subject.type = "wire"
          /\ outcome = NoOutcome
          /\ outcome' = [fn |-> "deserialize", wire |-> subject.wire,
                         result |-> ObjectDeserialize(subject.wire, subject.is_sha256),
                         object |-> NoOutcome]
    /\ UNCHANGED <<Run, subject>>

\* Hash::padded on the hash, as the Remote Store is handed it
Padded ==
    /\ subject.type = "hash"
    /\ outcome = NoOutcome
    /\ outcome' = [fn |-> "padded", result |-> Done(HashPadded(subject.hash))]
    /\ UNCHANGED <<Run, subject>>

\* the padded text stored as a 32-byte word and coerced back to a Hash
FromWire ==
    /\ outcome.fn = "padded"
    /\ outcome' = [fn |-> "from_wire",
                   result |-> HashFromFixedBytes(FixedBytesFromStr(outcome.result.value))]
    /\ UNCHANGED <<Run, subject>>

CodecNext == FromStr \/ New \/ Serialize \/ Deserialize \/ Padded \/ FromWire

SpecCodec == CodecInit /\ [][CodecNext]_vars

\* ------------------------------------------------- Evm::fetch, step by step
\* most related hashes of an object, most hashes of a request
MaxRelated == 1
MaxRequests == 2

\* hashes of a Remote Store whose related-hash relation is arbitrary
Nodes == {1, 2, 3}

\* Evm::fetch is entered with the requested hashes
FetchInit ==
    /\ state = StateNone
    /\ status = "Ok"
    /\ input = [read |-> "none", line |-> BlankLine]
    /\ written = <<>>
    /\ engine = <<>>
    /\ calls = <<>>
    /\ pushed = <<>>
    /\ fault = NoFault
    /\ git = [objects |-> {}, references |-> [n \in Names |-> NoRef]]
    /\ executor = [objects |-> {}, refs |-> [n \in Names |-> EmptyHash]]
    /\ subject \in [type : {"fetch"},
                  related : [Nodes -> SeqsUpTo(Nodes, MaxRelated)],
                  fetches : SeqsUpTo(Nodes, MaxRequests)]
    /\ outcome = [fn |-> "fetch", to_fetch |-> subject.fetches, processed |-> {},
                  fetched |-> <<>>, result |-> "running"]

\* the loop is still running and to_fetch.pop() gives a hash
Popping ==
    /\ outcome.fn = "fetch"
    /\ outcome.result = "running"
    /\ outcome.to_fetch # <<>>

Popped == outcome.to_fetch[Len(outcome.to_fetch)]
Rest == SubSeq(outcome.to_fetch, 1, Len(outcome.to_fetch) - 1)

\* the popped hash was processed before: continue
FetchSkip ==
    /\ Popping
    /\ AlreadyProcessed(outcome.processed, Popped)
    /\ outcome' = [outcome EXCEPT !.to_fetch = Rest]
    /\ UNCHANGED <<Run, subject>>

\* the popped hash is new: it is fetched, its related hashes are queued and
\* the object is saved
FetchObject ==
    /\ Popping
    /\ ~AlreadyProcessed(outcome.processed, Popped)
    /\ outcome' = [outcome EXCEPT !.to_fetch = Rest \o subject.related[Popped],
                                  !.processed = @ \cup {Popped},
                                  !.fetched = Append(@, Popped)]
    /\ UNCHANGED <<Run, subject>>

\* the popped hash is new and executor.fetch or git.save_object fails: the
\* error is returned
FetchFail ==
    /\ Popping
    /\ ~AlreadyProcessed(outcome.processed, Popped)
    /\ \E failed \in {"executor.fetch", "git.save_object"} :
         outcome' = [outcome EXCEPT
                       !.to_fetch = IF failed = "executor.fetch" THEN Rest
                                    ELSE Rest \o subject.related[Popped],
                       !.processed = @ \cup {Popped},
                       !.fetched = Append(@, Popped),
                       !.result = IF failed = "executor.fetch" THEN "Missing"
                                  ELSE "Failure"]
    /\ UNCHANGED <<Run, subject>>

\* to_fetch.pop() gives None: Ok(())
FetchDone ==
    /\ outcome.fn = "fetch"
    /\ outcome.result = "running"
    /\ outcome.to_fetch = <<>>
    /\ outcome' = [outcome EXCEPT !.result = "Ok"]
    /\ UNCHANGED <<Run, subject>>

FetchNext == FetchSkip \/ FetchObject \/ FetchFail \/ FetchDone

\* the loop runs on one thread and every iteration returns
SpecFetch == FetchInit /\ [][FetchNext]_vars /\ WF_vars(FetchNext)

\* ------------------------------------------------------------- properties
WellFormedPushLine(line) ==
    /\ ~line.blank
    /\ Len(line.parts) = 2
    /\ line.parts[1] = W("push")
    /\ Len(line.parts[2].parts) = 2

WellFormedFetchLine(line) ==
    /\ ~line.blank
    /\ Len(line.parts) = 3
    /\ line.parts[1] = W("fetch")
    /\ ParseHash(line.parts[2]).ok

\* the step handles "\n" while a fetch batch is open
FlushingFetch == state.kind = "ListingFetches" /\ input' = ReadLine(BlankLine)
\* the step handles "\n" while a push batch is open
FlushingPush == state.kind = "ListingPushes" /\ input' = ReadLine(BlankLine)

\* hashes a directive resolves to in the stores before the flush
LocalHash(p) == git.references[p.local]
RemoteHash(p) == executor.refs[p.remote]
Changed(p) == LocalHash(p) # RemoteHash(p)

Count(cs, op, h) == Cardinality({i \in DOMAIN cs : cs[i].op = op /\ cs[i].hash = h})
HasCall(cs, op) == \E i \in DOMAIN cs : cs[i].op = op

\* C1: a well-formed push line while fetches are accumulated, or a fetch line
\* while pushes are accumulated, ends the run with IllegalState without any
\* engine or store call; no step is taken once the run has ended, so the open
\* batch is never dispatched.
C1_MismatchedBatchLineIsIllegal ==
    [][/\ status = "running"
       /\ (/\ input'.read = "line"
           /\ \/ state.kind = "ListingFetches" /\ WellFormedPushLine(input'.line)
              \/ state.kind = "ListingPushes" /\ WellFormedFetchLine(input'.line))
          => (status' = "IllegalState" /\ engine' = <<>> /\ calls' = <<>>
              /\ state' = state)]_vars

C1_Witness ==
    /\ status = "IllegalState"
    /\ state.kind = "ListingFetches"
    /\ WellFormedPushLine(input.line)

\* C2: a capabilities or list line received while a fetch or push batch is
\* open is an illegal-state error and is not executed against the engine.
C2_CapabilitiesOrListWhileBatchOpen ==
    [][(/\ state.kind # "None"
        /\ input'.read = "line"
        /\ input'.line \in {L(<<W("capabilities")>>), L(<<W("list")>>),
                            L(<<W("list"), W("for-push")>>)})
       => (status' = "IllegalState" /\ engine' = <<>>)]_vars

\* C3: a blank line while accumulating invokes the engine's batched fetch
\* (resp. push) exactly once with the whole accumulated list, in input order,
\* and leaves the state Idle.
C3_FlushInvokesEngineOnce ==
    [][(FlushingFetch \/ FlushingPush)
       => /\ state' = StateNone
          /\ engine' = <<IF state.kind = "ListingFetches"
                         THEN Invocation("fetch", state.hashes, <<>>)
                         ELSE Invocation("push", <<>>, state.refs)>>]_vars

\* C4: a flushed push batch of n directives writes exactly n result lines and
\* then one blank line; the i-th line is "ok <remote>" or
\* "error <remote> <message>" for the i-th directive's remote ref.
C4_PushOutputShape ==
    [][FlushingPush
       => LET n == Len(state.refs)
          IN /\ Len(written') = n + 1
             /\ written'[n + 1] = Blank
             /\ \A i \in 1..n :
                  \/ written'[i] = <<"ok", state.refs[i].remote>>
                  \/ /\ Len(written'[i]) = 3
                     /\ written'[i][1] = "error"
                     /\ written'[i][2] = state.refs[i].remote]_vars

C4_Witness ==
    /\ input = ReadLine(BlankLine)
    /\ Len(engine) = 1 /\ engine[1].op = "push"
    /\ Len(engine[1].pushes) = 2
    /\ engine[1].pushes[1].local # engine[1].pushes[1].remote
    /\ written[1][1] = "error"

\* C5: each ref of a flushed push batch is reported on its own: it is "ok"
\* exactly when pushing that ref succeeds, whatever happens to the other refs
\* of the batch.
C5_PushOutcomePerRef ==
    [][FlushingPush
       => \A i \in DOMAIN state.refs :
            (written'[i][1] = "ok")
              <=> (EvmPush(<<state.refs[i]>>, git, executor, fault').result = "Ok")]_vars

\* C6: within one flushed fetch batch each object is fetched from the Remote
\* Store and saved to the Local Store at most once, and exactly once when the
\* batch succeeds and the object is reachable from a requested hash.
C6_FetchEachObjectOnce ==
    [][FlushingFetch
       => \A h \in ObjectHashes :
            /\ Count(calls', "executor.fetch", h) <= 1
            /\ Count(calls', "git.save_object", h) <= 1
            /\ (status' = "running"
                /\ h \in UNION {Reach(r) : r \in Range(state.hashes)})
               => /\ Count(calls', "executor.fetch", h) = 1
                  /\ Count(calls', "git.save_object", h) = 1]_vars

C10_ReferencesNameRemoteRef ==
    [][(FlushingPush /\ pushed' # <<>>)
       => pushed'[1].references =
            LET changed == SelectSeq(state.refs, Changed)
            IN [i \in DOMAIN changed |->
                  [name |-> changed[i].remote, hash |-> LocalHash(changed[i])]]]_vars

\* the objects Evm::push has to send for a changed directive
MissingFor(p) ==
    IF RemoteHash(p) = EmptyHash
    THEN Reach(LocalHash(p)) \ executor.objects
    ELSE Reach(LocalHash(p)) \ Reach(RemoteHash(p))

C12_LocalResolutionFailureStopsPush ==
    [][(/\ FlushingPush
        /\ \/ fault'.op = "git.resolve_reference"
           \/ \E i \in DOMAIN state.refs : LocalHash(state.refs[i]) = NoRef)
       => /\ status' = "Command"
          /\ \A i \in DOMAIN calls' : calls'[i].op = "git.resolve_reference"
          /\ pushed' = <<>>
          /\ executor' = executor
          /\ \A i \in DOMAIN state.refs : written'[i][1] = "error"]_vars

C12_Witness ==
    /\ input = ReadLine(BlankLine)
    /\ status = "Command"
    /\ fault = NoFault
    /\ Len(engine) = 1 /\ engine[1].op = "push"
    /\ Len(engine[1].pushes) = 2
    /\ git.references[engine[1].pushes[1].local] # NoRef
    /\ git.references[engine[1].pushes[2].local] = NoRef
    /\ Len(calls) = 2
    /\ calls[2] = Call("git.resolve_reference", NoHash, engine[1].pushes[2].local)

\* the store call chosen to fail was made while the line was handled
FaultHit ==
    \E i \in DOMAIN calls' :
         /\ calls'[i].op = fault'.op
         /\ fault'.hash \in {NoHash, calls'[i].hash}

\* C13: when resolving the remote refs, listing the remote inventory, listing
\* the local reachable set, the local ancestry diff or reading a local object
\* fails for some directive, the push returns the error, Executor::push is
\* not called and the Remote Store is unchanged, whatever was computed for
\* earlier directives; in no case does a failed push change the Remote Store.
C13_MissingObjectFailureAbortsPush ==
    [][FlushingPush
       => /\ (/\ FaultHit
              /\ fault'.op \in {"executor.resolve_references", "executor.list_objects",
                                "git.list_objects", "git.list_missing_objects",
                                "git.get_object"})
             => /\ status' = "Command"
                /\ calls'[Len(calls')].op = fault'.op
                /\ ~HasCall(calls', "executor.push")
                /\ pushed' = <<>>
                /\ executor' = executor
                /\ \A i \in DOMAIN state.refs :
                     written'[i] = <<"error", state.refs[i].remote, "Failure">>
          /\ (status' = "Command" /\ ~HasCall(calls', "executor.push"))
             => executor' = executor]_vars

C13_Witness ==
    /\ input = ReadLine(BlankLine)
    /\ status = "Command"
    /\ fault.op = "git.get_object"
    /\ Len(engine) = 1 /\ engine[1].op = "push"
    /\ Len(engine[1].pushes) = 2
    /\ calls[Len(calls)] = Call("git.get_object", fault.hash, "")
    /\ Cardinality({i \in DOMAIN calls :
                      calls[i].op \in {"git.list_objects", "git.list_missing_objects"}}) = 2
    /\ \E i \in DOMAIN calls : calls[i].op = "git.get_object" /\ calls[i].hash # fault.hash

\* C14: a flushed fetch that fails stops at the failing Remote Store fetch or
\* Local Store save: that call is the last one, the object it was about is
\* not added to the Local Store, and every object saved before it is there.
C14_FetchFailsFast ==
    [][(FlushingFetch /\ status' = "Command")
       => LET n == Len(calls')
              saved == {calls'[i].hash : i \in {j \in 1..(n - 1) :
                                                  calls'[j].op = "git.save_object"}}
          IN /\ n > 0
             /\ calls'[n].op \in {"executor.fetch", "git.save_object"}
             /\ calls'[n].hash \notin git'.objects \ git.objects
             /\ git'.objects = git.objects \cup saved]_vars

\* hashes of the calls to op recorded in cs
Called(cs, op) == {cs[i].hash : i \in {j \in DOMAIN cs : cs[j].op = op}}

\* C15: when a flushed fetch succeeds, the objects fetched from the Remote
\* Store and saved to the Local Store are exactly the objects reachable from
\* the requested hashes, and the Local Store holds them all.
C15_FetchSavesReachabilityClosure ==
    [][(FlushingFetch /\ status' = "running")
       => LET closure == UNION {Reach(h) : h \in Range(state.hashes)}
          IN /\ Called(calls', "executor.fetch") = closure
             /\ Called(calls', "git.save_object") = closure
             /\ closure \subseteq git'.objects
             /\ git'.objects = git.objects \cup closure]_vars

C15_Witness ==
    /\ input = ReadLine(BlankLine)
    /\ status = "running"
    /\ Len(engine) = 1
    /\ engine[1] = Invocation("fetch", <<4>>, <<>>)
    /\ Called(calls, "git.save_object") = {1, 2, 3, 4}
    /\ {1, 2, 3, 4} \subseteq git.objects

\* C16: a flushed fetch neither fetches from the Remote Store nor saves again
\* an object that the Local Store already holds.
C16_FetchSkipsLocalObjects ==
    [][FlushingFetch
       => \A h \in git.objects :
            /\ h \notin Called(calls', "executor.fetch")
            /\ h \notin Called(calls', "git.save_object")]_vars

C18_FetchOutputOnlyAtFlush ==
    [][/\ (/\ input'.read = "line"
           /\ ~input'.line.blank
           /\ input'.line.parts # <<>>
           /\ Head(input'.line.parts) \in {W("fetch"), W("push")})
          => written' = <<>>
       /\ FlushingFetch
          => written' = IF status' = "running" THEN <<Blank>> ELSE <<>>]_vars

C18_Witness ==
    /\ input = ReadLine(BlankLine)
    /\ status = "running"
    /\ Len(engine) = 2
    /\ engine[1].op = "fetch" /\ engine[2].op = "fetch"
    /\ written = <<Blank>>

\* a line that is not the bare blank line and breaks the command grammar
MalformedLine(line) ==
    /\ ~line.blank
    /\ \/ line.parts = <<>>
       \/ LET command == Head(line.parts)
              args == Tail(line.parts)
          IN \/ command = W("capabilities") /\ Len(args) # 0
             \/ command = W("list")
                /\ (Len(args) > 1 \/ (Len(args) = 1 /\ args[1] # W("for-push")))
             \/ command = W("fetch") /\ Len(args) # 2
             \/ command = W("push")
                /\ (Len(args) # 1 \/ Len(args[1].parts) # 2)

\* a line whose command word is none of the four commands
UnknownCommand(line) ==
    /\ ~line.blank
    /\ line.parts # <<>>
    /\ Head(line.parts) \notin {W("capabilities"), W("list"), W("fetch"), W("push")}

\* C19: a line that breaks the command grammar ends the run with
\* MalformedLine, and a line with an unrecognized command word with
\* UnknownCommand; in both cases the engine is not called, so an open batch is
\* never dispatched.
C19_ProtocolViolationsAbort ==
    [][(status = "running" /\ input'.read = "line")
       => /\ MalformedLine(input'.line)
             => (status' = "MalformedLine" /\ engine' = <<>> /\ calls' = <<>>)
          /\ UnknownCommand(input'.line)
             => (status' = "UnknownCommand" /\ engine' = <<>> /\ calls' = <<>>)]_vars

\* the step reads a clean end of input: "\n" with no batch open, the end of
\* the stream, or a broken pipe
CleanEndOfInput ==
    \/ input'.read = "eof"
    \/ input'.read = "broken_pipe"
    \/ input' = ReadLine(BlankLine) /\ state.kind = "None"

\* C20: the run ends with exit code 0 and nothing on standard error exactly
\* when it reads a clean end of input; a step that ends it otherwise ends it
\* with the error of that step, printed after "remote:", and exit code 1; a
\* step that raises no error leaves it running, and an ended run takes no
\* further step.
C20_ExitOnlyOnCleanEndOfInput ==
    [][/\ status = "running"
       /\ CleanEndOfInput <=> status' = "Ok"
       /\ status' = "Ok" => Main(status') = [code |-> 0, stderr |-> <<>>]
       /\ status' \notin {"running", "Ok"}
          => /\ status' \in {"MalformedLine", "UnknownCommand", "IllegalState",
                              "InvalidArgument", "Command", "InputOutput"}
             /\ Main(status') = [code |-> 1, stderr |-> <<"remote:", status'>>]
       /\ (status' = "Command") <=> (engine' # <<>> /\ status' # "running")
       /\ (status' = "InputOutput") <=> (input'.read = "error")]_vars

C20_Witness ==
    /\ status = "Command"
    /\ input = ReadLine(L(<<W("list")>>))
    /\ state.kind = "None"
    /\ fault.op = "executor.list"
    /\ Main(status) = [code |-> 1, stderr |-> <<"remote:", "Command">>]

\* the hash a hex text of 40 or 64 characters stands for
HashOfText(text) == IF Len(text) = Sha1Chars THEN Sha1(text) ELSE Sha256(text)
\* characters of a hash of the algorithm
HashChars(is_sha256) == IF is_sha256 THEN Sha256Chars ELSE Sha1Chars
\* a hex text of the width of the algorithm
ValidText(text, is_sha256) == IsMatch(text, HashChars(is_sha256))

\* the payload is a valid payload of its kind for the subject's algorithm
ValidPayload ==
    /\ subject.type = "payload"
    /\ CASE subject.kind = "Blob" -> TRUE
         [] subject.kind = "Tree" ->
              /\ subject.form.cut = "whole"
              /\ subject.form.width = HashLength(subject.is_sha256)
         [] subject.kind = "Commit" ->
              /\ ValidText(subject.form.tree, subject.is_sha256)
              /\ \A i \in DOMAIN subject.form.parents :
                   ValidText(subject.form.parents[i], subject.is_sha256)
              /\ subject.form.tail # <<>> /\ Head(subject.form.tail) = AuthorLine
         [] subject.kind = "Tag" ->
              /\ subject.form.object = "text"
              /\ ValidText(subject.form.text, subject.is_sha256)

\* the hashes a valid payload refers to, in order
ExpectedRelated ==
    CASE subject.kind = "Blob" -> <<>>
      [] subject.kind = "Tree" ->
           [i \in DOMAIN subject.form.entries |->
              HashOfText(HexEncode(subject.form.entries[i]))]
      [] subject.kind = "Commit" ->
           <<HashOfText(subject.form.tree)>>
           \o [i \in DOMAIN subject.form.parents |-> HashOfText(subject.form.parents[i])]
      [] subject.kind = "Tag" -> <<HashOfText(subject.form.text)>>

\* the object of the subject's kind and payload
ExpectedObject ==
    [kind |-> subject.kind, data |-> subject.data, related_objects |-> ExpectedRelated]

\* C21: for an object of any kind with a valid payload, deserializing its
\* serialization with the same algorithm succeeds and gives the object back:
\* same kind, payload and related objects; so does deserializing the
\* serialization of any object Object::new built.
C21_ObjectRoundTrip ==
    /\ (outcome.fn = "new" /\ ValidPayload)
       => ObjectDeserialize(ObjectSerialize(ExpectedObject), subject.is_sha256)
            = Done(ExpectedObject)
    /\ (outcome.fn = "deserialize" /\ subject.type = "payload")
       => outcome.result = Done(outcome.object)

\* the wire bytes break the format: no NUL, a header that is not two tokens
\* separated by one space, an unknown kind, or a decimal length that is not
\* the length of the payload
BadWire(wire) ==
    \/ Position(wire, Nul) = 0
    \/ LET header == Split(SubSeq(wire, 1, Position(wire, Nul) - 1), Space)
           data == SubSeq(wire, Position(wire, Nul) + 1, Len(wire))
       IN \/ Len(header) # 2
          \/ \A kind \in ObjectKinds : header[1] # AsBytes(KindName(kind))
          \/ header[1] = <<>> \/ header[2] = <<>>
          \/ /\ \A i \in DOMAIN header[2] : header[2][i] \in Zero..(Zero + 9)
             /\ DecimalValue(header[2]) # Len(data)

\* C22: Object::deserialize returns an Invalid error, and no object, when the
\* bytes have no NUL, the header is not exactly two space-separated tokens,
\* the kind is not blob, tree, commit or tag, or the declared length is not
\* the length of the payload.
C22_DeserializeRejectsBadWire ==
    (outcome.fn = "deserialize" /\ subject.type = "wire" /\ BadWire(subject.wire))
    => (~outcome.result.ok /\ outcome.result.err = "Invalid")

C22_Witness ==
    /\ outcome.fn = "deserialize"
    /\ subject.type = "wire"
    /\ subject.wire = AsBytes(<<"b", "l", "o", "b">>) \o <<Space, Zero + 5, Nul>> \o TestData
    /\ outcome.result = Fail("Invalid")

\* a tree payload of whole entries whose hashes have the algorithm's width
WellFormedTree ==
    /\ subject.type = "payload"
    /\ subject.kind = "Tree"
    /\ subject.form.cut = "whole"
    /\ subject.form.width = HashLength(subject.is_sha256)

\* C23: for a well-formed tree payload of k entries, the related objects are
\* k hashes, one per entry in entry order, each of the width of the
\* repository's algorithm, whatever the bytes of the entries' hashes.
C23_TreeRelatedHashes ==
    (outcome.fn = "new" /\ WellFormedTree)
    => /\ outcome.result.ok
       /\ Len(outcome.result.value.related_objects) = Len(subject.form.entries)
       /\ \A i \in DOMAIN subject.form.entries :
            /\ Len(outcome.result.value.related_objects[i].text)
                 = HashChars(subject.is_sha256)
            /\ outcome.result.value.related_objects[i] = ExpectedRelated[i]

\* C24: a tree payload with bytes left but no NUL, or with fewer bytes than a
\* hash after a NUL, gives an Invalid error: no crash and no partial list.
C24_MalformedTreeIsInvalid ==
    (/\ outcome.fn = "new"
     /\ subject.kind = "Tree"
     /\ subject.form.width = HashLength(subject.is_sha256)
     /\ subject.form.cut \in {"no_nul", "short"})
    => outcome.result = Fail("Invalid")

\* a commit payload whose tree and parent lines carry hex texts of 40 or 64
\* characters
CommitOfValidHashes ==
    /\ subject.type = "payload"
    /\ subject.kind = "Commit"
    /\ IsMatch(subject.form.tree, Sha1Chars) \/ IsMatch(subject.form.tree, Sha256Chars)
    /\ \A i \in DOMAIN subject.form.parents :
         \/ IsMatch(subject.form.parents[i], Sha1Chars)
         \/ IsMatch(subject.form.parents[i], Sha256Chars)

\* C25: for a commit payload the related objects are the hashes of the
\* leading tree and parent lines, in order; the scan stops with success at
\* the first other line, an empty line or a line without a space included,
\* and no later line contributes.
C25_CommitScanStopsAtFirstOtherLine ==
    (outcome.fn = "new" /\ CommitOfValidHashes)
    => /\ outcome.result.ok
       /\ outcome.result.value.related_objects = ExpectedRelated

\* the first line of the tag payload is "object <hash>" with a valid hash
TagOfValidHash ==
    /\ subject.form.object = "text"
    /\ IsMatch(subject.form.text, Sha1Chars) \/ IsMatch(subject.form.text, Sha256Chars)

\* C26: for a tag payload whose first line is "object <hash>" with a valid
\* hash of 40 or 64 hex characters the related objects are exactly that hash;
\* any other first line gives an Invalid error.
C26_TagRelatedHash ==
    (outcome.fn = "new" /\ subject.kind = "Tag")
    => IF TagOfValidHash
       THEN /\ outcome.result.ok
            /\ outcome.result.value.related_objects = ExpectedRelated
       ELSE outcome.result = Fail("Invalid")

\* C27: Hash::from_str succeeds exactly for the texts of 40 or of 64
\* lowercase hex characters and rejects every other text.
C27_HashParsingExact ==
    outcome.fn = "from_str"
    => (outcome.result.ok
        <=> (IsMatch(subject.text, Sha1Chars) \/ IsMatch(subject.text, Sha256Chars)))

\* C28: parsing a text of 40 hex characters gives the Sha1 hash with that
\* text, parsing one of 64 gives the Sha256 hash with that text, displaying
\* the parsed hash gives the text back, and the all-zero texts parse to the
\* empty hash of their length.
C28_ParsePreservesTextAndWidth ==
    (/\ outcome.fn = "from_str"
     /\ IsMatch(subject.text, Sha1Chars) \/ IsMatch(subject.text, Sha256Chars))
    => /\ outcome.result = Done(HashOfText(subject.text))
       /\ outcome.result.value.text = subject.text
       /\ subject.text = Repeat("0", Len(subject.text))
          => outcome.result.value = HashEmpty(Len(subject.text) = Sha256Chars)

\* the batch with the force flags replaced by those of flags
WithForce(refs, flags) == [i \in DOMAIN refs |-> [refs[i] EXCEPT !.is_force = flags[i]]]

C30_CommandsNeverOverlap ==
    [][(/\ input'.read = "line"
        /\ status' = "running"
        /\ ~WellFormedFetchLine(input'.line)
        /\ ~WellFormedPushLine(input'.line))
       => (written' # <<>> /\ written'[Len(written')] = Blank)]_vars

\* the directive is to be pushed to a remote ref that does not exist
ChangedAbsent(p) == Changed(p) /\ RemoteHash(p) = EmptyHash

C33_FailedPushReportsThenEndsRun ==
    [][/\ (FlushingPush /\ EvmPush(state.refs, git, executor, fault').result # "Ok")
          => /\ Len(written') = Len(state.refs) + 1
             /\ \A i \in DOMAIN state.refs :
                  written'[i] = <<"error", state.refs[i].remote,
                                  EvmPush(state.refs, git, executor, fault').result>>
             /\ written'[Len(written')] = Blank
             /\ status' = "Command"
       /\ status = "Command" => vars' = vars]_vars

C33_Witness ==
    /\ input = ReadLine(BlankLine)
    /\ status = "Command"
    /\ engine # <<>>
    /\ engine[1].op = "push"
    /\ Len(engine[1].pushes) = 2
    /\ written = <<<<"error", engine[1].pushes[1].remote, "Failure">>,
                   <<"error", engine[1].pushes[2].remote, "Failure">>, Blank>>

\* C34: an accumulating state always holds at least one directive, the engine
\* is never invoked for a fetch or a push with an empty list and a flush
\* always invokes it, and a line that is rejected or fails leaves the
\* accumulated list as it was.
C34_AccumulatedListNeverEmpty ==
    [][/\ state'.kind = "ListingFetches" => state'.hashes # <<>>
       /\ state'.kind = "ListingPushes" => state'.refs # <<>>
       /\ \A i \in DOMAIN engine' :
            /\ engine'[i].op = "fetch" => engine'[i].hashes # <<>>
            /\ engine'[i].op = "push" => engine'[i].pushes # <<>>
       /\ (FlushingFetch \/ FlushingPush) => engine' # <<>>
       /\ (input'.read = "line" /\ ~input'.line.blank /\ status' # "running")
          => state' = state]_vars

C34_Witness ==
    /\ status = "MalformedLine"
    /\ input.read = "line"
    /\ state.kind = "ListingPushes"
    /\ Len(state.refs) = 2

\* C35: when the input ends, by end of file or a broken pipe, while a fetch
\* or push batch is accumulated, the run ends with success; the accumulated
\* directives are not handed to the engine, no store is called, nothing is
\* written, and the ended run takes no further step.
C35_EndOfInputDropsOpenBatch ==
    [][/\ (state.kind # "None" /\ input'.read \in {"eof", "broken_pipe"})
          => /\ status' = "Ok"
             /\ Main(status').code = 0
             /\ engine' = <<>> /\ calls' = <<>> /\ pushed' = <<>>
             /\ written' = <<>>
             /\ git' = git /\ executor' = executor
       /\ status = "Ok" => vars' = vars]_vars

C35_Witness ==
    /\ status = "Ok"
    /\ input.read = "eof"
    /\ state.kind = "ListingFetches"
    /\ Len(state.hashes) = 2
    /\ engine = <<>>
    /\ written = <<>>

\* C36: whatever list resolve_references returns, every directive of a push
\* is either skipped as up to date or sends a reference update: when the
\* list returned is shorter than the list of names asked for, the push fails.
C36_ShortResolutionFailsPush ==
    [][(/\ FlushingPush
        /\ \A i \in DOMAIN state.refs : LocalHash(state.refs[i]) # NoRef
        /\ Len(MockResolveReferences(executor, [i \in DOMAIN state.refs |->
                                                  state.refs[i].remote]))
             < Len(state.refs))
       => EvmPushResolved(state.refs,
                          [i \in DOMAIN state.refs |-> LocalHash(state.refs[i])],
                          MockResolveReferences(executor, [i \in DOMAIN state.refs |->
                                                             state.refs[i].remote]),
                          git, executor, NoFault,
                          <<>>).result # "Ok"]_vars

\* C37: an object fetch saves has the hash it was requested under: when the
\* Remote Store answers the request for a hash with another object, one that
\* is neither in the Local Store nor reachable from the requested hash, that
\* object is not saved.
C37_FetchSavesOnlyRequestedHash ==
    [][FlushingFetch
       => \A object \in executor.objects :
            (/\ state.hashes[1] \in executor.objects
             /\ object \notin Reach(state.hashes[1])
             /\ object \notin git.objects)
            => object \notin
                 FetchBody(<<>>, {}, git, executor, NoFault,
                           <<Call("executor.fetch", state.hashes[1], "")>>,
                           state.hashes[1], object).git.objects]_vars

\* C38: coercing the padded 32-byte word of a hash back gives the hash, of
\* the same algorithm: for every Sha1 and every Sha256 hash, both empty
\* hashes included.
C38_FromWireInvertsPadding ==
    outcome.fn = "from_wire" => outcome.result = Done(subject.hash)

\* the hashes reachable from S through the related-hash relation
RECURSIVE ReachableIn(_, _)
ReachableIn(related, S) ==
    IF UNION {Range(related[h]) : h \in S} \subseteq S THEN S
    ELSE ReachableIn(related, S \cup UNION {Range(related[h]) : h \in S})

\* no hash was fetched twice, and no more hashes than can be reached
FetchBounded ==
    outcome.fn = "fetch"
    => /\ Len(outcome.fetched)
            <= Cardinality(ReachableIn(subject.related, Range(subject.fetches)))
       /\ \A i, j \in DOMAIN outcome.fetched :
            outcome.fetched[i] = outcome.fetched[j] => i = j

\* C39: fetch terminates for every related-hash relation and every request
\* list, cycles and repeated hashes included: no hash is fetched from the
\* Remote Store twice, the fetches are at most the distinct hashes reachable
\* from the request, and the call eventually returns Ok or an error.
C39_FetchTerminates ==
    /\ []FetchBounded
    /\ <>(outcome.fn = "fetch" /\ outcome.result # "running")

C39_Witness ==
    /\ outcome.fn = "fetch"
    /\ outcome.result = "Ok"
    /\ subject.related[1] = <<2>>
    /\ subject.related[2] = <<1>>
    /\ subject.fetches = <<1, 1>>
    /\ outcome.fetched = <<1, 2>>

====
